---- MODULE Spec2Model ----
(***************************************************************************)
(* Typed AST projection layer (crates/rslint_parser/src/ast.rs) and the    *)
(* format-IR conversion of the continue statement                          *)
(* (crates/formatter/src/ts/statements/continue_statement.rs).             *)
(*                                                                         *)
(* Three specifications share the variables:                               *)
(*   Spec        the cast contract, the four support helpers and the       *)
(*               AstNodeList queries, applied to a bounded CST node;       *)
(*   SpecIter    two AstChildren sequences obtained from one parent and    *)
(*               advanced independently;                                   *)
(*   SpecFormat  ContinueStmt::to_format_element over every bounded token  *)
(*               sequence and every outcome of the Formatter's dispatch.   *)
(*                                                                         *)
(* Option<T> is a sequence of length 0 (None) or 1 (Some(v)).              *)
(***************************************************************************)
EXTENDS Naturals, Sequences, FiniteSets

VARIABLES parent, formatter, pc, ret, it1, it2

vars == <<parent, formatter, pc, ret, it1, it2>>

\* ---------------------------------------------------------------- bounds
\* Direct children of the parent node in Spec.
MaxChildren == 2
\* Elements of a LIST node in Spec.
MaxListLen == 2
\* Direct children of the parent node in SpecIter.
MaxIterChildren == 3
\* Tokens of the continue statement in SpecFormat.
MaxStmtTokens == 3

\* ---------------------------------------------------------------- Option
None == <<>>

Some(v) == <<v>>

\* ---------------------------------------------------------------- CST
\* SyntaxKind: kinds partition nodes from tokens.
TokenKinds == {"CONTINUE_KW", "IDENT", "SEMICOLON"}

NodeKinds == {"CONTINUE_STMT", "BREAK_STMT", "LIST"}

\* A CST token: a leaf with its literal text.
Tok(k, t) == [isNode |-> FALSE, kind |-> k, text |-> t, children |-> <<>>]

\* A CST node: owns its children, nodes and tokens interleaved.
Node(k, cs) == [isNode |-> TRUE, kind |-> k, text |-> "", children |-> cs]

\* A SyntaxNode / SyntaxToken handle: the element plus its position in the
\* tree (the path of child indices from the root), which is its identity.
Handle(path, el) ==
    [path |-> path, isNode |-> el.isNode, kind |-> el.kind,
     text |-> el.text, children |-> el.children]

Root(el) == Handle(<<>>, el)

\* parent.children_with_tokens(): every direct child, in source order.
children_with_tokens(p) ==
    [i \in 1..Len(p.children) |-> Handle(Append(p.path, i), p.children[i])]

IsNode(h) == h.isNode

\* parent.children(): the direct child nodes, in source order, tokens skipped.
children(p) == SelectSeq(children_with_tokens(p), IsNode)

\* Sequences over S of length at most n.
SeqUpTo(S, n) == UNION {[1..k -> S] : k \in 0..n}

\* ---------------------------------------------------------------- typed kinds
\* The typed wrappers of the generated module: the kinds each one claims.
NodeTypes == {"ContinueStmt", "BreakStmt", "Stmt"}

TokenTypes == {"Ident", "Keyword"}

Claimed(T) ==
    CASE T = "ContinueStmt" -> {"CONTINUE_STMT"}
      [] T = "BreakStmt" -> {"BREAK_STMT"}
      [] T = "Stmt" -> {"CONTINUE_STMT", "BREAK_STMT"}
      [] T = "Ident" -> {"IDENT"}
      [] T = "Keyword" -> {"CONTINUE_KW"}
      [] OTHER -> {}

\* AstNode::can_cast / AstToken::can_cast: a pure predicate over SyntaxKind.
can_cast(T, kind) == kind \in Claimed(T)

\* A cast that checks nothing: every node or token is wrapped.
cast_unchecked(T, syntax) == Some([type |-> T, syntax |-> syntax])

\* AstNode::cast / AstToken::cast: the typed view holds the same handle.
cast(T, syntax) ==
    IF can_cast(T, syntax.kind)
    THEN Some([type |-> T, syntax |-> syntax])
    ELSE None

\* ---------------------------------------------------------------- AstChildren
\* AstChildren::new(parent)
AstChildren_new(N, p) == [inner |-> children(p), ph |-> N]

\* AstChildren::new_from_children(children)
AstChildren_new_from_children(N, cs) == [inner |-> cs, ph |-> N]

\* Iterator::find_map(N::cast) on the inner SyntaxNodeChildren: the first
\* child that casts, and the cursor left right after it.
RECURSIVE find_map_cast(_, _)
find_map_cast(N, inner) ==
    IF inner = <<>>
    THEN [item |-> None, inner |-> <<>>]
    ELSE LET c == cast(N, Head(inner))
         IN IF c # None
            THEN [item |-> c, inner |-> Tail(inner)]
            ELSE find_map_cast(N, Tail(inner))

\* A next() that casts only the child under the cursor instead of searching
\* on: self.inner.next().and_then(N::cast).
AstChildren_next_no_skip(it) ==
    IF it.inner = <<>>
    THEN [item |-> None, it |-> it]
    ELSE [item |-> cast(it.ph, Head(it.inner)),
          it |-> [inner |-> Tail(it.inner), ph |-> it.ph]]

\* <AstChildren<N> as Iterator>::next
AstChildren_next(it) ==
    LET r == find_map_cast(it.ph, it.inner)
    IN [item |-> r.item, it |-> [inner |-> r.inner, ph |-> it.ph]]

\* Iterator::collect: next() until it returns None.
RECURSIVE Iterator_collect(_)
Iterator_collect(it) ==
    LET r == AstChildren_next(it)
    IN IF r.item = None THEN <<>> ELSE <<r.item[1]>> \o Iterator_collect(r.it)

\* Iterator::last: consumes the sequence and keeps the last item.
Iterator_last(it) ==
    LET all == Iterator_collect(it)
    IN IF all = <<>> THEN None ELSE Some(all[Len(all)])

\* ---------------------------------------------------------------- SyntaxList
\* SyntaxList::new(node)
SyntaxList_new(node) == [list |-> node]

\* SyntaxList::iter: the list node's child nodes.
SyntaxList_iter(l) == children(l.list)

\* SyntaxList::len: the number of elements of the list node, of any kind.
SyntaxList_len(l) == Len(children(l.list))

\* SyntaxList::is_empty
SyntaxList_is_empty(l) == SyntaxList_len(l) = 0

\* ---------------------------------------------------------------- AstNodeList
\* AstNodeList::new(parent)
AstNodeList_new(N, p) == [inner |-> SyntaxList_new(p), ph |-> N]

\* AstNodeList::iter
AstNodeList_iter(l) == AstChildren_new_from_children(l.ph, SyntaxList_iter(l.inner))

\* AstNodeList::len
AstNodeList_len(l) == SyntaxList_len(l.inner)

\* AstNodeList::first
AstNodeList_first(l) == AstChildren_next(AstNodeList_iter(l)).item

\* AstNodeList::last
AstNodeList_last(l) == Iterator_last(AstNodeList_iter(l))

\* AstNodeList::is_empty
AstNodeList_is_empty(l) == SyntaxList_is_empty(l.inner)

\* ---------------------------------------------------------------- support
\* Iterator::find(|e| e.kind() == kind)
RECURSIVE find_kind(_, _)
find_kind(s, kind) ==
    IF s = <<>> THEN None
    ELSE IF Head(s).kind = kind THEN Some(Head(s))
    ELSE find_kind(Tail(s), kind)

\* The last element of that kind instead of the first.
RECURSIVE rfind_kind(_, _)
rfind_kind(s, kind) ==
    IF s = <<>> THEN None
    ELSE IF s[Len(s)].kind = kind THEN Some(s[Len(s)])
    ELSE rfind_kind(SubSeq(s, 1, Len(s) - 1), kind)

\* A helper's outcome: a value, or the fatal abort of a failed expect().
Value(v) == [panicked |-> FALSE, val |-> v]

Panic == [panicked |-> TRUE, val |-> None]

\* A child lookup that unwraps its result: it aborts when nothing casts.
support_child_expect(N, p) ==
    LET r == find_map_cast(N, children(p)).item
    IN IF r = None THEN Panic ELSE Value(r)

\* support::child
support_child(N, p) == Value(find_map_cast(N, children(p)).item)

\* support::children
support_children(N, p) == Value(AstChildren_new(N, p))

\* A list lookup that wraps the last LIST child instead of the first.
support_list_last(N, p) ==
    LET list == rfind_kind(children(p), "LIST")
    IN IF list = None THEN Panic ELSE Value(AstNodeList_new(N, list[1]))

\* support::list: expect() aborts when no LIST child is present.
support_list(N, p) ==
    LET list == find_kind(children(p), "LIST")
    IN IF list = None THEN Panic ELSE Value(AstNodeList_new(N, list[1]))

IsToken(h) == ~h.isNode

\* support::token
support_token(p, kind) ==
    Value(find_kind(SelectSeq(children_with_tokens(p), IsToken), kind))

\* ---------------------------------------------------------------- shared state
\* The result of the last operation.
NoRet == [op |-> "none", ty |-> "", arg |-> None, panicked |-> FALSE, val |-> None]

Ret(op, ty, arg, out) ==
    [op |-> op, ty |-> ty, arg |-> arg, panicked |-> out.panicked, val |-> out.val]

\* An AstChildren sequence held by a caller, with what it has yielded so far.
NoIter ==
    [live |-> FALSE, it |-> [inner |-> <<>>, ph |-> ""], out |-> <<>>,
     done |-> FALSE, calls |-> 0, born |-> 0]

NoFormatter == [failing |-> {}]

\* ---------------------------------------------------------------- Spec
\* The parent under inspection: tokens, statement nodes and LIST nodes whose
\* elements are statement nodes.
ListElements == {Node(k, <<>>) : k \in {"CONTINUE_STMT", "BREAK_STMT"}}

ParentElements ==
    {Tok("IDENT", "a"), Tok("CONTINUE_KW", "continue")}
        \cup ListElements
        \cup {Node("LIST", cs) : cs \in SeqUpTo(ListElements, MaxListLen)}

Init ==
    /\ parent \in {Root(Node("BLOCK_STMT", cs)) : cs \in SeqUpTo(ParentElements, MaxChildren)}
    /\ formatter = NoFormatter
    /\ pc = "start"
    /\ ret = NoRet
    /\ it1 = NoIter
    /\ it2 = NoIter

Idle == UNCHANGED <<parent, formatter, it1, it2>>

\* N::cast(node) on a child node of the parent.
CastNode ==
    /\ pc = "start"
    /\ \E T \in NodeTypes : \E i \in DOMAIN children(parent) :
         LET x == children(parent)[i]
         IN ret' = Ret("cast", T, Some(x), Value(cast(T, x)))
    /\ pc' = "done"
    /\ Idle

\* T::cast(token) on a child token of the parent.
CastToken ==
    /\ pc = "start"
    /\ \E T \in TokenTypes : \E i \in DOMAIN SelectSeq(children_with_tokens(parent), IsToken) :
         LET x == SelectSeq(children_with_tokens(parent), IsToken)[i]
         IN ret' = Ret("cast", T, Some(x), Value(cast(T, x)))
    /\ pc' = "done"
    /\ Idle

CallChild ==
    /\ pc = "start"
    /\ \E N \in NodeTypes : ret' = Ret("child", N, None, support_child(N, parent))
    /\ pc' = IF ret'.panicked THEN "aborted" ELSE "done"
    /\ Idle

CallChildren ==
    /\ pc = "start"
    /\ \E N \in NodeTypes : ret' = Ret("children", N, None, support_children(N, parent))
    /\ pc' = IF ret'.panicked THEN "aborted" ELSE "done"
    /\ Idle

CallToken ==
    /\ pc = "start"
    /\ \E k \in TokenKinds : ret' = Ret("token", k, None, support_token(parent, k))
    /\ pc' = IF ret'.panicked THEN "aborted" ELSE "done"
    /\ Idle

CallList ==
    /\ pc = "start"
    /\ \E N \in NodeTypes : ret' = Ret("list", N, None, support_list(N, parent))
    /\ pc' = IF ret'.panicked THEN "aborted" ELSE "listed"
    /\ Idle

\* len(), is_empty(), first(), last() and a full iter() of the list obtained.
QueryList ==
    /\ pc = "listed"
    /\ LET l == ret.val
       IN ret' = Ret("query", ret.ty, Some(l),
                     Value([len |-> AstNodeList_len(l),
                            is_empty |-> AstNodeList_is_empty(l),
                            first |-> AstNodeList_first(l),
                            last |-> AstNodeList_last(l),
                            items |-> Iterator_collect(AstNodeList_iter(l))]))
    /\ pc' = "done"
    /\ Idle

Next ==
    \/ CastNode
    \/ CastToken
    \/ CallChild
    \/ CallChildren
    \/ CallToken
    \/ CallList
    \/ QueryList

Spec == Init /\ [][Next]_vars

\* ---------------------------------------------------------------- SpecIter
IterElements ==
    {Tok("IDENT", "a")} \cup {Node(k, <<>>) : k \in NodeKinds}

InitIter ==
    /\ parent \in {Root(Node("BLOCK_STMT", cs)) : cs \in SeqUpTo(IterElements, MaxIterChildren)}
    /\ formatter = NoFormatter
    /\ pc = "start"
    /\ ret = NoRet
    /\ it1 = NoIter
    /\ it2 = NoIter

\* A sequence as the accessor returns it; born is how many times the other
\* sequence had been advanced by then.
Fresh(N, born) ==
    [live |-> TRUE, it |-> support_children(N, parent).val, out |-> <<>>,
     done |-> FALSE, calls |-> 0, born |-> born]

\* One call of next() by the holder of the sequence, which stops at None.
Advanced(s) ==
    LET r == AstChildren_next(s.it)
    IN [s EXCEPT !.it = r.it,
                 !.out = IF r.item = None THEN @ ELSE Append(@, r.item[1]),
                 !.done = (r.item = None),
                 !.calls = @ + 1]

Obtain1 ==
    /\ ~it1.live
    /\ \E N \in NodeTypes : it1' = Fresh(N, 0)
    /\ UNCHANGED <<parent, formatter, pc, ret, it2>>

\* The accessor is invoked again while the first sequence is anywhere.
Obtain2 ==
    /\ it1.live
    /\ ~it2.live
    /\ \E N \in NodeTypes : it2' = Fresh(N, it1.calls)
    /\ UNCHANGED <<parent, formatter, pc, ret, it1>>

Advance1 ==
    /\ it1.live
    /\ ~it1.done
    /\ it1' = Advanced(it1)
    /\ UNCHANGED <<parent, formatter, pc, ret, it2>>

Advance2 ==
    /\ it2.live
    /\ ~it2.done
    /\ it2' = Advanced(it2)
    /\ UNCHANGED <<parent, formatter, pc, ret, it1>>

NextIter ==
    \/ Obtain1
    \/ Obtain2
    \/ Advance1
    \/ Advance2

SpecIter == InitIter /\ [][NextIter]_vars

\* ---------------------------------------------------------------- FormatElement
\* token(text): a literal token.
token(text) == [tag |-> "Token", text |-> text, content |-> <<>>]

\* space_token(): a forced space.
space_token == [tag |-> "Space", text |-> "", content |-> <<>>]

\* empty_element(): the no-op element.
empty_element == [tag |-> "Empty", text |-> "", content |-> <<>>]

\* format_elements![...]: the ordered join of the elements given.
format_elements(elements) == [tag |-> "List", text |-> "", content |-> elements]

\* ---------------------------------------------------------------- Formatter
\* Formatter::format_token: the dispatch on a token; absent when the
\* conversion registered for its kind fails.
format_token(f, tok) ==
    IF tok.kind \in f.failing THEN None ELSE Some(token(tok.text))

\* Formatter::format_node: the dispatch on a child; absent when the
\* conversion registered for its kind fails.
format_node(f, node) ==
    IF node.kind \in f.failing THEN None ELSE Some(token(node.text))

\* ---------------------------------------------------------------- ContinueStmt
\* ContinueStmt::continue_token
continue_token(self) == support_token(self.syntax, "CONTINUE_KW").val

\* ContinueStmt::ident_token
ident_token(self) == support_token(self.syntax, "IDENT").val

\* The conversion with one slip: "space" emits the space without a label,
\* "order" puts the label before the space, "keyword" substitutes the keyword
\* when its token is missing, "label" requires the label, "semi" emits the
\* terminator only when the CST holds one.
to_format_element_slip(self, f, slip) ==
    LET it == ident_token(self)
        ident ==
            IF it # None
            THEN LET n == format_node(f, it[1])
                 IN IF n = None THEN None
                    ELSE IF slip = "order"
                    THEN Some(format_elements(<<n[1], space_token>>))
                    ELSE Some(format_elements(<<space_token, n[1]>>))
            ELSE IF slip = "label" THEN None
            ELSE IF slip = "space" THEN Some(space_token)
            ELSE Some(empty_element)
        ct == continue_token(self)
        kw ==
            IF ct = None
            THEN IF slip = "keyword" THEN Some(token("continue")) ELSE None
            ELSE format_token(f, ct[1])
        semi ==
            IF slip = "semi" /\ support_token(self.syntax, "SEMICOLON").val = None
            THEN empty_element
            ELSE token(";")
    IN IF ident = None \/ kw = None THEN None
       ELSE Some(format_elements(<<kw[1], ident[1], semi>>))

to_format_element_space(self, f) == to_format_element_slip(self, f, "space")

to_format_element_order(self, f) == to_format_element_slip(self, f, "order")

to_format_element_keyword(self, f) == to_format_element_slip(self, f, "keyword")

to_format_element_label(self, f) == to_format_element_slip(self, f, "label")

to_format_element_semi(self, f) == to_format_element_slip(self, f, "semi")

\* <ContinueStmt as ToFormatElement>::to_format_element. Each `?` returns
\* None from the whole function.
to_format_element(self, f) ==
    LET it == ident_token(self)
        ident ==
            IF it # None
            THEN LET n == format_node(f, it[1])
                 IN IF n = None THEN None
                    ELSE Some(format_elements(<<space_token, n[1]>>))
            ELSE Some(empty_element)
    IN IF ident = None THEN None
       ELSE LET ct == continue_token(self)
            IN IF ct = None THEN None
               ELSE LET kw == format_token(f, ct[1])
                    IN IF kw = None THEN None
                       ELSE Some(format_elements(<<kw[1], ident[1], token(";")>>))

\* ---------------------------------------------------------------- SpecFormat
StmtTokens ==
    {Tok("CONTINUE_KW", "continue"), Tok("IDENT", "a"), Tok("IDENT", "b"),
     Tok("SEMICOLON", ";")}

InitFormat ==
    /\ parent \in {Root(Node("CONTINUE_STMT", cs)) : cs \in SeqUpTo(StmtTokens, MaxStmtTokens)}
    /\ formatter \in {[failing |-> F] : F \in SUBSET {"CONTINUE_KW", "IDENT"}}
    /\ pc = "start"
    /\ ret = NoRet
    /\ it1 = NoIter
    /\ it2 = NoIter

\* The statement is cast to its typed view and converted.
Convert ==
    /\ pc = "start"
    /\ LET self == cast("ContinueStmt", parent)
       IN /\ self # None
          /\ ret' = Ret("format", "ContinueStmt", self,
                        Value(to_format_element(self[1], formatter)))
    /\ pc' = "done"
    /\ UNCHANGED <<parent, formatter, it1, it2>>

NextFormat == Convert

SpecFormat == InitFormat /\ [][NextFormat]_vars

\* ================================================================ properties
\* Helpers that read the tree directly, not through the operations above.

\* The indices of the parent's direct children that satisfy Test.
Where(Test(_)) == {i \in DOMAIN parent.children : Test(parent.children[i])}

Min(S) == CHOOSE m \in S : \A n \in S : m <= n

\* The handle of the parent's i-th direct child.
ChildAt(i) == Handle(<<i>>, parent.children[i])

HasTok(kind) == \E i \in DOMAIN parent.children : parent.children[i].kind = kind

FirstTok(kind) ==
    LET Test(e) == ~e.isNode /\ e.kind = kind
    IN ChildAt(Min(Where(Test)))

Dispatches(kind) == kind \notin formatter.failing

Converted == pc = "done" /\ ret.op = "format"

\* A FormatElement with its nested joins flattened, leaves in order.
RECURSIVE Flatten(_)
Flatten(e) ==
    IF e.tag # "List" THEN <<e>>
    ELSE IF e.content = <<>> THEN <<>>
    ELSE Flatten(Head(e.content)) \o Flatten(format_elements(Tail(e.content)))

\* C1: a continue statement whose keyword token is present and formats and
\* which has no label converts to the join of exactly the formatted keyword,
\* the empty element and the literal token ";", in that order.
C1_NoLabelJoin ==
    (Converted /\ HasTok("CONTINUE_KW") /\ Dispatches("CONTINUE_KW") /\ ~HasTok("IDENT"))
        => ret.val = Some(format_elements(
               <<token(FirstTok("CONTINUE_KW").text), empty_element, token(";")>>))

C1_Witness ==
    /\ Converted
    /\ parent.children = <<Tok("CONTINUE_KW", "continue"), Tok("SEMICOLON", ";")>>
    /\ Dispatches("CONTINUE_KW")
    /\ ret.val # None

\* C2: with keyword and label both present and formatting, the result is
\* present and flattens to keyword, forced space, formatted label, ";".
C2_LabelOrder ==
    (Converted /\ HasTok("CONTINUE_KW") /\ Dispatches("CONTINUE_KW")
        /\ HasTok("IDENT") /\ Dispatches("IDENT"))
        => /\ ret.val # None
           /\ Flatten(ret.val[1]) =
                <<token(FirstTok("CONTINUE_KW").text), space_token,
                  token(FirstTok("IDENT").text), token(";")>>

C2_Witness ==
    /\ Converted
    /\ parent.children =
         <<Tok("CONTINUE_KW", "continue"), Tok("IDENT", "b"), Tok("SEMICOLON", ";")>>
    /\ formatter.failing = {}
    /\ ret.val # None
    /\ Len(Flatten(ret.val[1])) = 4

\* C3: a continue statement whose keyword token is missing converts to
\* absent, whatever label or terminator it holds.
C3_MissingKeywordAbsent ==
    (Converted /\ ~HasTok("CONTINUE_KW")) => ret.val = None

C3_Witness ==
    /\ Converted
    /\ ~HasTok("CONTINUE_KW")
    /\ HasTok("IDENT")
    /\ HasTok("SEMICOLON")
    /\ formatter.failing = {}
    /\ ret.val = None

\* C4 as stated: an absent result implies that the keyword token is missing.
C4_AbsentOnlyIfKeywordMissing ==
    (Converted /\ ret.val = None) => ~HasTok("CONTINUE_KW")

\* C4, amended: the result is absent exactly when the keyword token is
\* missing or the Formatter's dispatch returns absent on a child that is
\* present (the keyword token or the label); an absent label alone never
\* makes the result absent.
C4_AbsentIffKeywordOrDispatch ==
    Converted =>
        (ret.val = None <=>
            \/ ~HasTok("CONTINUE_KW")
            \/ ~Dispatches("CONTINUE_KW")
            \/ (HasTok("IDENT") /\ ~Dispatches("IDENT")))

C4_Witness ==
    /\ Converted
    /\ HasTok("CONTINUE_KW")
    /\ ~HasTok("IDENT")
    /\ ~Dispatches("IDENT")
    /\ ret.val # None

\* C5: a present result always ends with the token ";", with or without a
\* label and whether or not the CST holds a semicolon token.
C5_TerminatorLast ==
    (Converted /\ ret.val # None) =>
        LET e == ret.val[1]
            flat == Flatten(e)
        IN /\ e.tag = "List"
           /\ e.content # <<>>
           /\ e.content[Len(e.content)] = token(";")
           /\ flat[Len(flat)] = token(";")

C5_Witness ==
    /\ Converted
    /\ ret.val # None
    /\ ~HasTok("SEMICOLON")
    /\ HasTok("IDENT")

\* C6: cast returns present iff can_cast holds of the kind of the node or
\* token cast, and a present result wraps that same node or token.
C6_CastTotality ==
    ret.op = "cast" =>
        LET x == ret.arg[1]
        IN /\ ~ret.panicked
           /\ (ret.val # None) <=> can_cast(ret.ty, x.kind)
           /\ ret.val # None => (ret.val[1].syntax = x /\ ret.val[1].type = ret.ty)
           /\ (x.kind = "IDENT" /\ ret.ty = "Keyword") =>
                (ret.val = None /\ ~can_cast("Keyword", "IDENT"))

C6_Witness ==
    /\ ret.op = "cast"
    /\ ret.arg[1].kind = "IDENT"
    /\ ret.ty = "Keyword"
    /\ ret.val = None

\* The typed values AstChildren<N> is to yield from the parent: its direct
\* child nodes whose kind N claims, in source order.
Typed(N) ==
    LET Test(h) == h.isNode /\ h.kind \in Claimed(N)
        m == SelectSeq([i \in DOMAIN parent.children |-> ChildAt(i)], Test)
    IN [i \in DOMAIN m |-> [type |-> N, syntax |-> m[i]]]

IsPrefix(s, t) == Len(s) <= Len(t) /\ s = SubSeq(t, 1, Len(s))

Exhausts(s) ==
    s.live =>
        /\ IsPrefix(s.out, Typed(s.it.ph))
        /\ s.done => s.out = Typed(s.it.ph)
        /\ s.calls = Len(s.out) + (IF s.done THEN 1 ELSE 0)
        /\ s.calls <= Len(parent.children) + 1
        /\ s.calls = 0 =>
             s.it.inner = SelectSeq([i \in DOMAIN parent.children |-> ChildAt(i)], IsNode)

\* C7: an AstChildren<N> sequence yields exactly the parent's direct child
\* nodes that N claims, in source order, each once, and then returns absent
\* after at most one call per child plus one; a sequence obtained by invoking
\* the accessor again starts from the first child, wherever the first is.
C7_IterationExhaustion == Exhausts(it1) /\ Exhausts(it2)

C7_Witness ==
    /\ it1.done
    /\ it2.done
    /\ it2.born >= 1
    /\ Len(it1.out) >= 2
    /\ Len(children(parent)) > Len(it1.out)
    /\ it2.it.ph = it1.it.ph
    /\ it2.out = it1.out

IsList(e) == e.isNode /\ e.kind = "LIST"

HasList == Where(IsList) # {}

\* C8: on a parent with a LIST child the list helper never aborts and wraps
\* the first LIST child; a list with zero elements has len() = 0, is_empty()
\* true and first() and last() absent.
C8_ListNonOptional ==
    /\ (ret.op = "list" /\ HasList) =>
         /\ ~ret.panicked
         /\ ret.val.inner.list = ChildAt(Min(Where(IsList)))
         /\ ret.val.ph = ret.ty
    /\ ret.op = "query" =>
         /\ ret.arg[1].inner.list = ChildAt(Min(Where(IsList)))
         /\ parent.children[Min(Where(IsList))].children = <<>> =>
              /\ ret.val.len = 0
              /\ ret.val.is_empty
              /\ ret.val.first = None
              /\ ret.val.last = None

C8_Witness ==
    /\ ret.op = "query"
    /\ Cardinality(Where(IsList)) = 2
    /\ parent.children[1].children = <<>>
    /\ parent.children[2].children # <<>>
    /\ ret.val.len = 0

\* What the child helper is to return: the first direct child node N claims.
FirstChild(N) ==
    LET Test(e) == e.isNode /\ e.kind \in Claimed(N)
    IN IF Where(Test) = {} THEN None
       ELSE Some([type |-> N, syntax |-> ChildAt(Min(Where(Test)))])

\* What the token helper is to return: the first direct child token of kind.
FirstToken(kind) ==
    LET Test(e) == ~e.isNode /\ e.kind = kind
    IN IF Where(Test) = {} THEN None ELSE Some(ChildAt(Min(Where(Test))))

\* C9: the only abort is the list helper on a parent with no LIST child; the
\* child helper returns the first castable child node or absent, the token
\* helper the first child token of the kind or absent, the children helper a
\* sequence over the child nodes.
C9_SingleAbort ==
    /\ ret.panicked <=> (ret.op = "list" /\ ~HasList)
    /\ (pc = "aborted") <=> ret.panicked
    /\ ret.op = "child" => ret.val = FirstChild(ret.ty)
    /\ ret.op = "token" => ret.val = FirstToken(ret.ty)
    /\ ret.op = "children" =>
         /\ ret.val.ph = ret.ty
         /\ ret.val.inner = SelectSeq([i \in DOMAIN parent.children |-> ChildAt(i)], IsNode)

C9_Witness ==
    /\ ret.op = "list"
    /\ ret.panicked
    /\ pc = "aborted"
    /\ parent.children # <<>>

\* C10: for every AstNodeList<N>, len() is the number of elements iter()
\* yields, is_empty() holds iff first() is absent, and first() and last() are
\* the first and last elements iter() yields.
C10_SizeAgreesWithIteration ==
    ret.op = "query" =>
        LET v == ret.val
        IN /\ v.len = Len(v.items)
           /\ v.is_empty <=> (v.first = None)
           /\ v.first = (IF v.items = <<>> THEN None ELSE Some(v.items[1]))
           /\ v.last = (IF v.items = <<>> THEN None ELSE Some(v.items[Len(v.items)]))

====
